---- MODULE Spec2Model ----
(***************************************************************************)
(* vibetest: the Discovery Engine (route cache, wordlist prober) and the   *)
(* Execution Pipeline (rate-limit-aware client, check scheduler).          *)
(*                                                                         *)
(* SpecDiscovery : repeated calls of discoverRoutes against one unchanged  *)
(*                 target, the cache file persisting between the calls.    *)
(* SpecScheduler : the check loop of runVibeTest, up to the report.        *)
(* SpecClient    : the response interceptors of the clients while the run  *)
(*                 of a check sends requests through them.                 *)
(***************************************************************************)
EXTENDS Integers, Sequences, FiniteSets, TLC

(***************************************************************************)
(* Bounds of the model.                                                    *)
(***************************************************************************)
\* number of wordlist entries kept from DISCOVERY_PATHS
WordlistLen == 12
\* how many times, within one chunk, a response may overtake the response of
\* a probe issued before it
MaxOvertakes == 1
\* number of discoverRoutes calls in one behaviour
MaxRuns == 2
\* number of checks in the registry
NumChecks == 3
\* number of rate-limited responses the target sends during one scan
MaxRateLimited == 6
\* number of responses that are inside an interceptor at one time
MaxInFlight == 2
\* length of the list a direct call of updateCache passes
MaxEntries == 2
\* number of direct calls of updateCache that write the file, in one behaviour
MaxUpdates == 2

(***************************************************************************)
(* Sequence helpers.                                                       *)
(***************************************************************************)
Range(s) == {s[k] : k \in DOMAIN s}

Min(a, b) == IF a <= b THEN a ELSE b

\* Array.prototype.findIndex: the first position whose path is p (0: none)
FindIndex(entries, p) ==
    IF \E k \in DOMAIN entries : entries[k].path = p
    THEN CHOOSE k \in DOMAIN entries :
            /\ entries[k].path = p
            /\ \A j \in 1..(k - 1) : entries[j].path # p
    ELSE 0

RECURSIVE Flatten(_)
Flatten(ss) == IF ss = <<>> THEN <<>> ELSE Head(ss) \o Flatten(Tail(ss))

(***************************************************************************)
(* wordlists.ts                                                            *)
(***************************************************************************)
\* entries of DISCOVERY_PATHS in source order; "/api/logs" and "/secrets"
\* occur twice in the source list, as they do here
WordPool ==
    << "/", "/home", "/api", "/docs", "/admin", "/health", "/secrets",
       "/api/logs", "/sitemap.xml", "/robots.txt", "/api/logs", "/secrets",
       "/v3", "/redoc" >>

DISCOVERY_PATHS == SubSeq(WordPool, 1, WordlistLen)

CHUNK_SIZE == 10

(***************************************************************************)
(* The target application (environment).                                   *)
(***************************************************************************)
BaseUrls == {"http://localhost:3000", "http://localhost:8080"}

Target == "http://localhost:3000"

\* strings of the model for which String.prototype.startsWith('/') is true
SlashPaths == Range(WordPool) \cup {"/secret", "/hidden", "/old", "/legacy"}

StartsWithSlash(s) == s \in SlashPaths

KeepCase(s) == s

\* String.prototype.toLowerCase on the directive names that occur
ToLower(s) ==
    CASE s = "Allow" -> "allow"
      [] s = "Disallow" -> "disallow"
      [] s = "DISALLOW" -> "disallow"
      [] s = "User-agent" -> "user-agent"
      [] s = "Sitemap" -> "sitemap"
      [] OTHER -> s

\* a response: status, whether typeof data === 'string', whether the
\* content-type header includes text/html, the lines of the body (each line
\* split at its first colon into a directive and what follows the blanks),
\* and the href attributes of its anchors
PlainResponse(status) ==
    [status |-> status, text |-> FALSE, html |-> FALSE, lines |-> <<>>, hrefs |-> <<>>]

RobotsResponse ==
    [status |-> 200, text |-> TRUE, html |-> FALSE,
     lines |-> << [directive |-> "User-agent", arg |-> "*"],
                  [directive |-> "Disallow", arg |-> "/secret"],
                  [directive |-> "allow", arg |-> "/admin"],
                  [directive |-> "Allow", arg |-> "/home"],
                  [directive |-> "Sitemap", arg |-> "/legacy"],
                  [directive |-> "DISALLOW", arg |-> ""],
                  [directive |-> "Disallow", arg |-> "private"] >>,
     hrefs |-> <<>>]

HomeResponse ==
    [status |-> 200, text |-> TRUE, html |-> TRUE, lines |-> <<>>,
     hrefs |-> << "/hidden", "/docs", "https://example.com", "", "/hidden" >>]

SiteBare ==
    [p \in Range(WordPool) |->
        IF p = "/admin" THEN PlainResponse(403) ELSE PlainResponse(404)]

SiteRich ==
    [p \in Range(WordPool) |->
        CASE p = "/" -> HomeResponse
          [] p = "/robots.txt" -> RobotsResponse
          [] p = "/secrets" -> PlainResponse(200)
          [] p = "/admin" -> PlainResponse(403)
          [] p = "/v3" -> PlainResponse(500)
          [] OTHER -> PlainResponse(404)]


(***************************************************************************)
(* route-cache.ts                                                          *)
(***************************************************************************)
\* crypto md5 of the base URL strings of the model
hashBaseUrl(baseUrl) ==
    CASE baseUrl = "http://localhost:3000" -> "87a70ce46ea04de7c28dd1e4da31904c"
      [] baseUrl = "http://localhost:8080" -> "37d007a56d816107ce5b52c10342db37"

EmptyStore == [h \in {} |-> <<>>]

OtherRecord ==
    [baseUrl |-> "http://localhost:8080",
     entries |-> << [path |-> "/admin", exists |-> FALSE, status |-> 404, lastChecked |-> 0] >>]

SeededStore ==
    [h \in {hashBaseUrl("http://localhost:3000"), hashBaseUrl("http://localhost:8080")} |->
        IF h = hashBaseUrl("http://localhost:8080") THEN OtherRecord
        ELSE [baseUrl |-> "http://localhost:3000",
              entries |-> << [path |-> "/admin", exists |-> TRUE, status |-> 200, lastChecked |-> 0],
                             [path |-> "/health", exists |-> FALSE, status |-> 404, lastChecked |-> 0],
                             [path |-> "/old", exists |-> TRUE, status |-> 200, lastChecked |-> 0],
                             [path |-> "/docs", exists |-> FALSE, lastChecked |-> 0] >>]]

\* the cache file: "missing" (existsSync is false), "unreadable" (readFileSync
\* throws), "garbage" (JSON.parse throws), "json" (the text of a store object,
\* data), or the JSON text of another value: "null", "number", "array"
MissingFile == [kind |-> "missing", data |-> EmptyStore]

UnreadableFile == [kind |-> "unreadable", data |-> EmptyStore]

GarbageFile == [kind |-> "garbage", data |-> EmptyStore]

NullFile == [kind |-> "null", data |-> EmptyStore]

NumberFile == [kind |-> "number", data |-> EmptyStore]

ArrayFile == [kind |-> "array", data |-> EmptyStore]

SeededFile == [kind |-> "json", data |-> SeededStore]

\* scan processes that share the cache file, each with its own target
Processes == {"p1", "p2"}

TargetOf(p) == IF p = "p1" THEN "http://localhost:3000" ELSE "http://localhost:8080"

\* no other process is inside updateCache
NoProcesses == [p \in Processes |-> [stage |-> "idle", cache |-> EmptyStore, wrote |-> <<>>]]

\* the environments a behaviour starts in: the cache file before the first
\* run, the target, the paths whose probe may end in a network-level failure,
\* and whether writeFileSync on the cache file succeeds
Scenarios ==
    { [file |-> MissingFile, site |-> SiteRich, flaky |-> {}, writable |-> TRUE],
      [file |-> MissingFile, site |-> SiteRich, flaky |-> {"/secrets"}, writable |-> TRUE],
      [file |-> SeededFile, site |-> SiteRich, flaky |-> {"/secrets", "/home"}, writable |-> TRUE],
      [file |-> MissingFile, site |-> SiteBare, flaky |-> {}, writable |-> TRUE],
      [file |-> SeededFile, site |-> SiteBare, flaky |-> {}, writable |-> FALSE],
      [file |-> UnreadableFile, site |-> SiteBare, flaky |-> {}, writable |-> FALSE],
      [file |-> GarbageFile, site |-> SiteBare, flaky |-> {}, writable |-> TRUE],
      [file |-> NullFile, site |-> SiteBare, flaky |-> {}, writable |-> TRUE],
      [file |-> NumberFile, site |-> SiteBare, flaky |-> {}, writable |-> TRUE],
      [file |-> ArrayFile, site |-> SiteBare, flaky |-> {}, writable |-> TRUE] }

VARIABLES
    cacheFile,        \* .vibetest-cache.json: [kind, data]
    site,             \* the target: path -> response
    flaky,            \* paths whose probe may fail at network level
    writable,         \* whether writing the cache file succeeds
    procs,            \* other scan processes: where each is in its updateCache call
    runNo,            \* number of discoverRoutes calls started
    dpc,              \* position inside discoverRoutes
    routes,           \* const routes: Route[]
    newCacheEntries,  \* const newCacheEntries
    pathsToSearch,    \* DISCOVERY_PATHS minus the cached paths
    chunkAt,          \* the loop variable i of the chunk loop
    inflight,         \* positions of pathsToSearch whose axios.get is pending
    overtakes,        \* responses of this chunk that overtook an older probe
    probeLog,         \* history: paths a request was issued for, this run
    failedProbes,     \* history: positions whose request failed, this run
    writes,           \* history: successful writes of the cache file, this run
    cachedAtStart,    \* history: getCachedPaths at the start of this run
    returned          \* history: the list each finished run returned

dvars == << cacheFile, site, flaky, writable, procs, runNo, dpc, routes, newCacheEntries,
            pathsToSearch, chunkAt, inflight, overtakes, probeLog, failedProbes,
            writes, cachedAtStart, returned >>

VARIABLES
    pc,               \* position of runVibeTest
    ci,               \* the check the loop is at (position in checks)
    findings,         \* const findings: Finding[]
    events,           \* history: the spinner events of the check loop
    outcome,          \* history: how the run of each check settled
    apiSite,          \* the responses the target sends to the checks' requests
    apiUrl,           \* whether config.apiUrl is set
    autoContinue,     \* config.autoContinue
    isTTY,            \* process.stdout.isTTY
    rateLimitHits,    \* the closure variable of each client instance
    pending,          \* responses inside an interceptor: id -> record
    nextId,           \* history: number of rate-limited responses so far
    pauseLog,         \* history, per instance: the pause of each returned response
    prompts,          \* history, per instance: prompts shown to the operator
    overlapped,       \* history, per instance: two responses were handled at once
    lastPassed        \* history, per instance: its latest response was not rate limited

\* the check loop
svars == << pc, ci, findings, events, outcome >>

\* the clients
cvars == << apiSite, apiUrl, autoContinue, isTTY, rateLimitHits, pending, nextId,
            pauseLog, prompts, overlapped, lastPassed >>

vars == << dvars, svars, cvars >>

\* loadCache: the parsed file, or {} when there is no file or the try block
\* threw; as a store, a number and an array have no record under any hash
loadCache ==
    IF cacheFile.kind = "json" THEN cacheFile.data ELSE EmptyStore

\* cache[hash] on what loadCache returned throws a TypeError: JSON.parse
\* returned null
CacheReadThrows == cacheFile.kind = "null"

\* cache[hash] = {...} on what loadCache returned throws a TypeError: the
\* value is null or a primitive
CacheUpdateThrows == cacheFile.kind \in {"null", "number"}

\* saveCache: the file holds JSON.stringify of the loaded value, unless the
\* write throws; the record that was set on an array is not serialised
saveCache(cache) ==
    IF ~writable \/ cacheFile.kind = "array" THEN cacheFile
    ELSE [kind |-> "json", data |-> cache]

getCachedPaths(baseUrl) ==
    LET cache == loadCache
        hash == hashBaseUrl(baseUrl)
    IN  IF hash \in DOMAIN cache
        THEN {cache[hash].entries[k].path : k \in DOMAIN cache[hash].entries}
        ELSE {}

\* the entries list of the record of a target ([] when it has no record)
CachedEntries(baseUrl) ==
    LET cache == loadCache
        hash == hashBaseUrl(baseUrl)
    IN  IF hash \in DOMAIN cache THEN cache[hash].entries ELSE <<>>

AllCachedEntries(baseUrl) == CachedEntries(baseUrl)

getCachedExistingPaths(baseUrl) ==
    LET cache == loadCache
        hash == hashBaseUrl(baseUrl)
    IN  IF hash \in DOMAIN cache
        THEN SelectSeq(cache[hash].entries, LAMBDA e : e.exists)
        ELSE <<>>

getCacheStats(baseUrl) ==
    LET cache == loadCache
        hash == hashBaseUrl(baseUrl)
        entries == IF hash \in DOMAIN cache THEN cache[hash].entries ELSE <<>>
    IN  [totalCached |-> Len(entries),
         existingPaths |-> Len(SelectSeq(entries, LAMBDA e : e.exists)),
         notFoundPaths |-> Len(SelectSeq(entries, LAMBDA e : ~e.exists))]

AppendEntries(entries, existingPaths, newEntries) == entries \o newEntries

\* the forEach of updateCache: existingPaths is computed once, before the loop
RECURSIVE MergeEntries(_, _, _)
MergeEntries(entries, existingPaths, newEntries) ==
    IF newEntries = <<>> THEN entries
    ELSE LET newEntry == Head(newEntries)
             merged == IF newEntry.path \in existingPaths
                       THEN [entries EXCEPT ![FindIndex(entries, newEntry.path)] = newEntry]
                       ELSE Append(entries, newEntry)
         IN  MergeEntries(merged, existingPaths, Tail(newEntries))

\* updateCache between loadCache and saveCache: the loaded store with the new
\* entries merged into the record of the target
MergedInto(cache, baseUrl, newEntries) ==
    LET hash == hashBaseUrl(baseUrl)
        old == IF hash \in DOMAIN cache THEN cache[hash]
               ELSE [baseUrl |-> baseUrl, entries |-> <<>>]
        existingPaths == {old.entries[k].path : k \in DOMAIN old.entries}
        rec == [baseUrl |-> old.baseUrl,
                entries |-> MergeEntries(old.entries, existingPaths, newEntries)]
    IN  [h \in DOMAIN cache \cup {hash} |-> IF h = hash THEN rec ELSE cache[h]]

\* updateCache up to its saveCache call: the store that is handed to saveCache
UpdatedStore(baseUrl, newEntries) == MergedInto(loadCache, baseUrl, newEntries)

(***************************************************************************)
(* crawler.ts: discoverRoutes                                              *)
(***************************************************************************)
Route(p) == [path |-> p, method |-> "GET"]

\* const visited = new Set<string>(): nothing is ever added to it
visited == {}

FilterNothing(cachedPaths) == DISCOVERY_PATHS

\* DISCOVERY_PATHS.filter(path => !cachedPaths.has(path))
FilterOutCached(cachedPaths) ==
    SelectSeq(DISCOVERY_PATHS, LAMBDA p : p \notin cachedPaths)

\* chunk = pathsToSearch.slice(i, i + CHUNK_SIZE), as positions of pathsToSearch
ChunkPositions(paths, i) == (i + 1)..Min(i + CHUNK_SIZE, Len(paths))

\* line.match(/^(?:Allow|Disallow):\s*(\S+)/i) && match[1].startsWith('/')
RobotsLineMatches(line) ==
    /\ ToLower(line.directive) \in {"allow", "disallow"}
    /\ line.arg # ""
    /\ StartsWithSlash(line.arg)

RECURSIVE RobotsRoutes(_)
RobotsRoutes(lines) ==
    IF lines = <<>> THEN <<>>
    ELSE (IF RobotsLineMatches(Head(lines)) THEN << Route(Head(lines).arg) >> ELSE <<>>)
         \o RobotsRoutes(Tail(lines))

LinkAccepted(href) ==
    /\ href # ""
    /\ StartsWithSlash(href)
    /\ href \notin visited
    /\ href \notin Range(DISCOVERY_PATHS)

RECURSIVE LinkRoutes(_)
LinkRoutes(hrefs) ==
    IF hrefs = <<>> THEN <<>>
    ELSE (IF LinkAccepted(Head(hrefs)) THEN << Route(Head(hrefs)) >> ELSE <<>>)
         \o LinkRoutes(Tail(hrefs))

\* what the try block pushes to routes for one response
RoutesOfResponse(p, res) ==
    IF res.status # 404
    THEN << Route(p) >>
         \o (IF p = "/robots.txt" /\ res.text THEN RobotsRoutes(res.lines) ELSE <<>>)
         \o (IF res.text /\ res.html THEN LinkRoutes(res.hrefs) ELSE <<>>)
    ELSE <<>>

KeepAll(rs) == rs

QueuedLearnedPaths(p, res) ==
    [k \in 1..(Len(RoutesOfResponse(p, res)) - 1) |-> RoutesOfResponse(p, res)[k + 1].path]

\* the paths a response adds to the paths that are probed in this run: the
\* robots and anchor branches push to routes only
QueuedForProbing(p, res) == <<>>

\* new Map keyed by path, filled in list order; Array.from(values()): a Map
\* keeps a key at the position of its first set and holds the value of its
\* last set
Deduplicate(rs) ==
    LET firsts == {k \in DOMAIN rs : \A j \in 1..(k - 1) : rs[j].path # rs[k].path}
        LastSet(p) == CHOOSE k \in DOMAIN rs :
                         /\ rs[k].path = p
                         /\ \A j \in DOMAIN rs : rs[j].path = p => j <= k
    IN  [n \in 1..Cardinality(firsts) |->
            rs[LastSet(rs[CHOOSE k \in firsts :
                              Cardinality({j \in firsts : j <= k}) = n].path)]]

NoBarrier == TRUE

\* await Promise.all(promises): every probe of the chunk has settled
AllSettled == inflight = {}

FailedEntryAsExisting(p) == [path |-> p, exists |-> TRUE, lastChecked |-> runNo]

\* the entry the catch block of a probe pushes
FailedEntry(p) == [path |-> p, exists |-> FALSE, lastChecked |-> runNo]

\* the synchronous tail of discoverRoutes after the last chunk
Finish ==
    IF newCacheEntries # <<>> /\ CacheUpdateThrows
    THEN /\ dpc' = "rejected"
         /\ UNCHANGED << cacheFile, writes, returned >>
    ELSE /\ cacheFile' = IF newCacheEntries # <<>>
                         THEN saveCache(UpdatedStore(Target, newCacheEntries))
                         ELSE cacheFile
         /\ writes' = IF newCacheEntries # <<>> /\ writable THEN writes + 1 ELSE writes
         /\ returned' = Append(returned, Deduplicate(routes))
         /\ dpc' = "idle"

\* discoverRoutes(baseUrl) from the call to its first await
DiscoverCall ==
    /\ pc = "discover"
    /\ dpc = "idle"
    /\ runNo < MaxRuns
    /\ runNo' = runNo + 1
    /\ ~CacheReadThrows
    /\ LET cachedPaths == getCachedPaths(Target)
           seeded == [k \in DOMAIN getCachedExistingPaths(Target) |->
                         Route(getCachedExistingPaths(Target)[k].path)]
           search == FilterOutCached(cachedPaths)
       IN  /\ cachedAtStart' = cachedPaths
           /\ routes' = seeded
           /\ pathsToSearch' = search
           /\ newCacheEntries' = <<>>
           /\ chunkAt' = 0
           /\ overtakes' = 0
           /\ failedProbes' = {}
           /\ writes' = 0
           /\ IF Len(search) > 0
              THEN /\ inflight' = ChunkPositions(search, 0)
                   /\ probeLog' = SubSeq(search, 1, Min(CHUNK_SIZE, Len(search)))
                   /\ dpc' = "probing"
                   /\ UNCHANGED << cacheFile, returned >>
              ELSE /\ inflight' = {}
                   /\ probeLog' = <<>>
                   /\ returned' = Append(returned, Deduplicate(seeded))
                   /\ dpc' = "idle"
                   /\ UNCHANGED cacheFile
    /\ UNCHANGED << site, flaky, writable, procs >>
    /\ UNCHANGED << svars, cvars >>

\* discoverRoutes(baseUrl) is called and getCachedPaths throws: the promise
\* of discoverRoutes is rejected
DiscoverCallThrows ==
    /\ pc = "discover"
    /\ dpc = "idle"
    /\ runNo < MaxRuns
    /\ CacheReadThrows
    /\ runNo' = runNo + 1
    /\ dpc' = "rejected"
    /\ UNCHANGED << cacheFile, site, flaky, writable, procs, routes, newCacheEntries,
                    pathsToSearch, chunkAt, inflight, overtakes, probeLog, failedProbes,
                    writes, cachedAtStart, returned >>
    /\ UNCHANGED << svars, cvars >>

Overtakes(k) == IF \E j \in inflight : j < k THEN 1 ELSE 0

MaySettle(k) ==
    /\ k \in inflight
    /\ overtakes + Overtakes(k) <= MaxOvertakes

\* the continuation of one probe after axios.get resolved
ProbeResponds(k) ==
    /\ dpc = "probing"
    /\ MaySettle(k)
    /\ LET p == pathsToSearch[k]
           res == site[p]
       IN  /\ newCacheEntries' = Append(newCacheEntries,
                  [path |-> p, exists |-> res.status # 404,
                   status |-> res.status, lastChecked |-> runNo])
           /\ routes' = routes \o RoutesOfResponse(p, res)
           /\ pathsToSearch' = pathsToSearch \o QueuedForProbing(p, res)
    /\ inflight' = inflight \ {k}
    /\ overtakes' = overtakes + Overtakes(k)
    /\ UNCHANGED << cacheFile, site, flaky, writable, procs, runNo, dpc,
                    chunkAt, probeLog, failedProbes, writes, cachedAtStart, returned >>
    /\ UNCHANGED << svars, cvars >>

\* the catch block of one probe: axios.get rejected
ProbeFails(k) ==
    /\ dpc = "probing"
    /\ MaySettle(k)
    /\ pathsToSearch[k] \in flaky
    /\ newCacheEntries' = Append(newCacheEntries, FailedEntry(pathsToSearch[k]))
    /\ inflight' = inflight \ {k}
    /\ overtakes' = overtakes + Overtakes(k)
    /\ failedProbes' = failedProbes \cup {k}
    /\ UNCHANGED << cacheFile, site, flaky, writable, procs, runNo, dpc, routes, pathsToSearch,
                    chunkAt, probeLog, writes, cachedAtStart, returned >>
    /\ UNCHANGED << svars, cvars >>

\* the chunk loop continues: the next chunk's probes are issued
NextChunk ==
    /\ dpc = "probing"
    /\ AllSettled
    /\ chunkAt + CHUNK_SIZE < Len(pathsToSearch)
    /\ chunkAt' = chunkAt + CHUNK_SIZE
    /\ overtakes' = 0
    /\ inflight' = inflight \cup ChunkPositions(pathsToSearch, chunkAt + CHUNK_SIZE)
    /\ probeLog' = probeLog \o SubSeq(pathsToSearch, chunkAt + CHUNK_SIZE + 1,
                                       Min(chunkAt + 2 * CHUNK_SIZE, Len(pathsToSearch)))
    /\ UNCHANGED << cacheFile, site, flaky, writable, procs, runNo, dpc, routes, newCacheEntries,
                    pathsToSearch, failedProbes, writes, cachedAtStart, returned >>
    /\ UNCHANGED << svars, cvars >>

LoopEndsEarly == TRUE

LoopNeverEnds == FALSE

\* for (let i = 0; i < pathsToSearch.length; i += CHUNK_SIZE): the condition
\* is false after the increment
LoopEnds == chunkAt + CHUNK_SIZE >= Len(pathsToSearch)

\* the chunk loop ends: updateCache, deduplicate, return
DiscoverReturn ==
    /\ dpc = "probing"
    /\ AllSettled
    /\ LoopEnds
    /\ Finish
    /\ UNCHANGED << site, flaky, writable, procs, runNo, routes, newCacheEntries, pathsToSearch,
                    chunkAt, inflight, overtakes, probeLog, failedProbes,
                    cachedAtStart >>
    /\ UNCHANGED << svars, cvars >>

DiscoveryScenario ==
    /\ \E sc \in Scenarios :
          /\ cacheFile = sc.file
          /\ site = sc.site
          /\ flaky = sc.flaky
          /\ writable = sc.writable
          /\ procs = NoProcesses
    /\ runNo = 0
    /\ dpc = "idle"
    /\ routes = <<>>
    /\ newCacheEntries = <<>>
    /\ pathsToSearch = <<>>
    /\ chunkAt = 0
    /\ inflight = {}
    /\ overtakes = 0
    /\ failedProbes = {}
    /\ probeLog = <<>>
    /\ writes = 0
    /\ cachedAtStart = {}
    /\ returned = <<>>

\* the latest call of discoverRoutes has returned its list
RunFinished == dpc = "idle" /\ runNo >= 1 /\ Len(returned) = runNo

(***************************************************************************)
(* runner.ts: createAxiosInstance and the check loop of runVibeTest        *)
(***************************************************************************)
\* a string is the sequence of its characters
RATE_LIMIT_INDICATORS ==
    << << "/", "b", "l", "o", "c", "k", "e", "d" >>,
       << "/", "r", "a", "t", "e", "-", "l", "i", "m", "i", "t" >>,
       << "/", "t", "o", "o", "-", "m", "a", "n", "y", "-", "r", "e", "q", "u",
          "e", "s", "t", "s" >>,
       << "r", "a", "t", "e", " ", "l", "i", "m", "i", "t", " ", "e", "x", "c",
          "e", "e", "d", "e", "d" >>,
       << "t", "o", "o", " ", "m", "a", "n", "y", " ", "r", "e", "q", "u", "e",
          "s", "t", "s" >> >>

BASE_WAIT_TIME == 3000

MAX_RATE_LIMIT_BEFORE_PROMPT == 5

UpperCaseLetters ==
    << "A", "B", "C", "D", "E", "F", "G", "H", "I", "J", "K", "L", "M",
       "N", "O", "P", "Q", "R", "S", "T", "U", "V", "W", "X", "Y", "Z" >>

LowerCaseLetters ==
    << "a", "b", "c", "d", "e", "f", "g", "h", "i", "j", "k", "l", "m",
       "n", "o", "p", "q", "r", "s", "t", "u", "v", "w", "x", "y", "z" >>

NoLowerCase(s) == s

\* String.prototype.toLowerCase
LowerCase(s) ==
    [k \in DOMAIN s |->
        IF \E n \in DOMAIN UpperCaseLetters : UpperCaseLetters[n] = s[k]
        THEN LowerCaseLetters[CHOOSE n \in DOMAIN UpperCaseLetters : UpperCaseLetters[n] = s[k]]
        ELSE s[k]]

\* String.prototype.includes
Includes(s, indicator) ==
    \E i \in 1..(Len(s) - Len(indicator) + 1) :
        \A j \in 1..Len(indicator) : s[i + j - 1] = indicator[j]

\* responses the target sends to the requests of the checks: status, the
\* request path (response.request.path) and JSON.stringify(response.data)
\* an ordinary answer
Ok200 ==
    [status |-> 200,
     path |-> << "/", "a", "p", "i", "/", "u", "s", "e", "r", "s" >>,
     body |-> << "{", "\"", "o", "k", "\"", ":", "t", "r", "u", "e", "}" >>]

\* throttled by status alone
Status429 ==
    [status |-> 429,
     path |-> << "/", "a", "p", "i", "/", "u", "s", "e", "r", "s" >>,
     body |-> << "{", "\"", "o", "k", "\"", ":", "t", "r", "u", "e", "}" >>]

\* status 200, the body names the throttling
TooManyBody200 ==
    [status |-> 200,
     path |-> << "/", "a", "p", "i", "/", "u", "s", "e", "r", "s" >>,
     body |-> << "{", "\"", "e", "r", "r", "o", "r", "\"", ":", "\"", "T", "o", "o",
              " ", "M", "a", "n", "y", " ", "R", "e", "q", "u", "e", "s", "t", "s",
              "\"", "}" >>]

\* status 200, the request path holds an indicator
BlockedPath200 ==
    [status |-> 200,
     path |-> << "/", "a", "p", "p", "/", "b", "l", "o", "c", "k", "e", "d" >>,
     body |-> << "{", "\"", "o", "k", "\"", ":", "t", "r", "u", "e", "}" >>]

\* the path holds an indicator in another case
UpperPath200 ==
    [status |-> 200,
     path |-> << "/", "B", "l", "o", "c", "k", "e", "d" >>,
     body |-> << "{", "\"", "O", "K", "\"", ":", "t", "r", "u", "e", "}" >>]

\* a server error
Error500 ==
    [status |-> 500,
     path |-> << "/", "a", "p", "i", "/", "u", "s", "e", "r", "s" >>,
     body |-> << "{", "\"", "e", "r", "r", "o", "r", "\"", ":", "\"", "I", "n", "t",
              "e", "r", "n", "a", "l", "\"", "}" >>]

ApiResponses ==
    { Ok200, Status429, TooManyBody200, BlockedPath200, UpperPath200, Error500 }

isRateLimited(response) ==
    \/ response.status = 429
    \/ \E n \in DOMAIN RATE_LIMIT_INDICATORS :
          \/ Includes(response.path, RATE_LIMIT_INDICATORS[n])
          \/ Includes(LowerCase(response.body), RATE_LIMIT_INDICATORS[n])

\* const isRateLimited of the interceptor, for each response the target sends
Classified == [r \in ApiResponses |-> isRateLimited(r)]

\* the two fields of the context through which the checks send requests
ClientFields == {"axios", "apiAxios"}

Instances == {"frontend", "api"}

\* apiAxiosInstance = config.apiUrl ? createAxiosInstance(config.apiUrl) : axiosInstance
InstanceOf(field) ==
    IF field = "apiAxios" /\ apiUrl THEN "api" ELSE "frontend"

SharedCounter(inst) == "frontend"

\* let rateLimitHits = 0 inside createAxiosInstance: the counter the
\* interceptor of a client reads and writes is the one of its own closure
CounterOf(inst) == inst

\* the checks registry: positions of the ordered list
checks == 1..NumChecks

Finding(i, n) == [checkId |-> i, id |-> n]

\* the finding lists the run of check i may resolve with
FindingLists(i) ==
    { <<>>, << Finding(i, 1) >>, << Finding(i, 1), Finding(i, 2) >> }

LoopNeverWaits == pc \in {"loop", "running"}

\* for (const check of checks) with an awaited body: the body is entered for
\* the next check only when the previous body has finished
LoopMayStart == pc = "loop"

\* the position the for..of iterator moves to
NextCheck(i) == i + 1

StartCheckSilently ==
    /\ LoopMayStart
    /\ pc' = "running"
    /\ UNCHANGED << ci, findings, events, outcome >>
    /\ UNCHANGED << dvars, cvars >>

\* the spinner method that ends the spinner of a check whose run resolved:
\* fail ("found issues") when it returned findings, succeed otherwise
SpinnerOfResolved(checkFindings) ==
    IF Len(checkFindings) > 0 THEN "fail" ELSE "succeed"

\* the loop starts the next check: spinner started, check.run(context) invoked
StartCheck ==
    /\ LoopMayStart
    /\ pc' = "running"
    /\ events' = Append(events, [type |-> "started", check |-> ci, spinner |-> "start"])
    /\ UNCHANGED << ci, findings, outcome >>
    /\ UNCHANGED << dvars, cvars >>

\* where the loop goes after the body: the next check, or printReport
AfterCheck == IF ci = NumChecks THEN "report" ELSE "loop"

\* await check.run(context) resolved with checkFindings
CheckResolves(checkFindings) ==
    /\ pc = "running"
    /\ findings' = IF Len(checkFindings) > 0 THEN findings \o checkFindings ELSE findings
    /\ events' = Append(events,
           [type |-> "succeeded", check |-> ci, count |-> Len(checkFindings),
            spinner |-> SpinnerOfResolved(checkFindings)])
    /\ outcome' = [outcome EXCEPT ![ci] = [kind |-> "resolved", list |-> checkFindings]]
    /\ pc' = AfterCheck
    /\ ci' = NextCheck(ci)
    /\ UNCHANGED << dvars, cvars >>

DroppedOnFailure(collected) == <<>>

\* the findings that remain after the catch block of the loop body
KeptOnFailure(collected) == collected

\* await check.run(context) rejected: the catch block
CheckRejects ==
    /\ pc = "running"
    /\ findings' = KeptOnFailure(findings)
    /\ events' = Append(events, [type |-> "failed", check |-> ci, spinner |-> "warn"])
    /\ outcome' = [outcome EXCEPT ![ci] = [kind |-> "rejected", list |-> <<>>]]
    /\ pc' = AfterCheck
    /\ ci' = NextCheck(ci)
    /\ UNCHANGED << dvars, cvars >>

\* printReport(findings)
Report ==
    /\ pc = "report"
    /\ pc' = "done"
    /\ UNCHANGED << ci, findings, events, outcome >>
    /\ UNCHANGED << dvars, cvars >>

WaitTimeUncapped(hits) == BASE_WAIT_TIME * hits

\* Math.min(BASE_WAIT_TIME * rateLimitHits, BASE_WAIT_TIME * 3)
WaitTime(hits) == Min(BASE_WAIT_TIME * hits, BASE_WAIT_TIME * 3)

\* the branch taken at "if (rateLimitHits <= MAX_RATE_LIMIT_BEFORE_PROMPT)"
PausesFirst(hits) == hits <= MAX_RATE_LIMIT_BEFORE_PROMPT

\* the branch taken at "if (rateLimitHits === MAX_RATE_LIMIT_BEFORE_PROMPT)"
AtThreshold(hits) == hits = MAX_RATE_LIMIT_BEFORE_PROMPT

\* the branch taken at "else if (rateLimitHits > MAX_RATE_LIMIT_BEFORE_PROMPT)"
BeyondThreshold(hits) == hits > MAX_RATE_LIMIT_BEFORE_PROMPT

Handled(inst) == {id \in DOMAIN pending : pending[id].inst = inst}

\* the interceptor from the second if on, with the counter as it is when the
\* code gets there: the stage the response goes to
AfterFirstPause(hits) ==
    IF AtThreshold(hits)
    THEN IF autoContinue THEN "return"
         ELSE IF isTTY THEN "prompt" ELSE "return"
    ELSE IF BeyondThreshold(hits) THEN "pause2" ELSE "return"

\* return response: the response leaves the interceptor
Return(id) ==
    /\ pending' = [j \in DOMAIN pending \ {id} |-> pending[j]]
    /\ pauseLog' = [pauseLog EXCEPT ![pending[id].inst] =
           Append(@, [hit |-> pending[id].hit, paused |-> pending[id].paused,
                      pauses |-> pending[id].pauses])]

\* a response that is not rate limited goes through the interceptor unchanged
\* and without a pause
ResponsePasses(field, response) ==
    /\ pc = "running"
    /\ response \in apiSite
    /\ ~Classified[response]
    /\ lastPassed' = [lastPassed EXCEPT ![InstanceOf(field)] = TRUE]
    /\ UNCHANGED << apiSite, apiUrl, autoContinue, isTTY, rateLimitHits, pending, nextId,
                    pauseLog, prompts, overlapped >>
    /\ UNCHANGED << dvars, svars >>

\* a rate-limited response enters the interceptor of a client of the running
\* check: the code from rateLimitHits++ to the first await
Intercept(field, response) ==
    /\ pc = "running"
    /\ response \in apiSite
    /\ Classified[response]
    /\ nextId < MaxRateLimited
    /\ Cardinality(DOMAIN pending) < MaxInFlight
    /\ LET inst == InstanceOf(field)
           hits == rateLimitHits[CounterOf(inst)] + 1
           id == nextId + 1
           stage == IF PausesFirst(hits) THEN "pause1" ELSE AfterFirstPause(hits)
           wait == IF PausesFirst(hits) THEN WaitTime(hits)
                   ELSE IF stage = "pause2" THEN BASE_WAIT_TIME * 3 ELSE 0
       IN  /\ rateLimitHits' = [rateLimitHits EXCEPT ![CounterOf(inst)] = hits]
           /\ nextId' = id
           /\ pending' = [j \in DOMAIN pending \cup {id} |->
                            IF j = id
                            THEN [inst |-> inst, hit |-> hits, stage |-> stage,
                                  paused |-> wait, pauses |-> 1]
                            ELSE pending[j]]
           /\ overlapped' = [overlapped EXCEPT ![inst] = @ \/ Handled(inst) # {}]
           /\ lastPassed' = [lastPassed EXCEPT ![inst] = FALSE]
    /\ UNCHANGED << apiSite, apiUrl, autoContinue, isTTY, pauseLog, prompts >>
    /\ UNCHANGED << dvars, svars >>

\* the timer of the first pause fires: the code from the second if to the
\* next await or to the return
WakeFirst(id) ==
    /\ pc # "exited"
    /\ id \in DOMAIN pending
    /\ pending[id].stage = "pause1"
    /\ LET inst == pending[id].inst
           stage == AfterFirstPause(rateLimitHits[CounterOf(inst)])
       IN  CASE stage = "return" ->
                  /\ Return(id)
                  /\ UNCHANGED prompts
             [] stage = "prompt" ->
                  /\ pending' = [pending EXCEPT ![id].stage = "prompt"]
                  /\ prompts' = [prompts EXCEPT ![inst] = @ + 1]
                  /\ UNCHANGED pauseLog
             [] stage = "pause2" ->
                  /\ pending' = [pending EXCEPT ![id].stage = "pause2",
                                                ![id].paused = @ + BASE_WAIT_TIME * 3,
                                                ![id].pauses = @ + 1]
                  /\ UNCHANGED << prompts, pauseLog >>
    /\ UNCHANGED << apiSite, apiUrl, autoContinue, isTTY, rateLimitHits, nextId,
                    overlapped, lastPassed >>
    /\ UNCHANGED << dvars, svars >>

\* the timer of the pause beyond the threshold fires: return response
WakeSecond(id) ==
    /\ pc # "exited"
    /\ id \in DOMAIN pending
    /\ pending[id].stage = "pause2"
    /\ Return(id)
    /\ UNCHANGED << apiSite, apiUrl, autoContinue, isTTY, rateLimitHits, nextId, prompts,
                    overlapped, lastPassed >>
    /\ UNCHANGED << dvars, svars >>

\* the operator answers the prompt with yes: return response
PromptContinue(id) ==
    /\ pc # "exited"
    /\ id \in DOMAIN pending
    /\ pending[id].stage = "prompt"
    /\ Return(id)
    /\ UNCHANGED << apiSite, apiUrl, autoContinue, isTTY, rateLimitHits, nextId, prompts,
                    overlapped, lastPassed >>
    /\ UNCHANGED << dvars, svars >>

\* the operator answers the prompt with no: the code up to the await of
\* logTestAttempt
PromptAbort(id) ==
    /\ pc # "exited"
    /\ id \in DOMAIN pending
    /\ pending[id].stage = "prompt"
    /\ pending' = [pending EXCEPT ![id].stage = "aborting"]
    /\ UNCHANGED << apiSite, apiUrl, autoContinue, isTTY, rateLimitHits, nextId, pauseLog,
                    prompts, overlapped, lastPassed >>
    /\ UNCHANGED << dvars, svars >>

ResumesAfterDecline == pc

\* process.exit(0): the process ends here, with exit code 0
ExitsAfterDecline == "exited"

\* logTestAttempt has resolved (it never rejects): process.exit(0)
Exit(id) ==
    /\ pc # "exited"
    /\ id \in DOMAIN pending
    /\ pending[id].stage = "aborting"
    /\ pending' = [pending EXCEPT ![id].stage = "exit"]
    /\ pc' = ExitsAfterDecline
    /\ UNCHANGED << apiSite, apiUrl, autoContinue, isTTY, rateLimitHits, nextId, pauseLog,
                    prompts, overlapped, lastPassed >>
    /\ UNCHANGED << ci, findings, events, outcome >>
    /\ UNCHANGED dvars

FallsThrough == "auth"

\* the catch block of the connectivity check ends with return
AfterConnectFailure == "returned"

\* axios.get rejects for a network-level failure and, with the default
\* validateStatus, for every status outside 200..299
ConnectivityFails(res) == res.status < 200 \/ res.status >= 300

\* await axios.get(config.baseUrl) resolved: on to the auth discovery
ConnectSucceeds ==
    /\ pc = "connect"
    /\ ~ConnectivityFails(site["/"])
    /\ pc' = "auth"
    /\ UNCHANGED << ci, findings, events, outcome >>
    /\ UNCHANGED << dvars, cvars >>

\* await axios.get(config.baseUrl) rejected: logTestAttempt, return
ConnectFails ==
    /\ pc = "connect"
    /\ ConnectivityFails(site["/"]) \/ "/" \in flaky
    /\ pc' = AfterConnectFailure
    /\ UNCHANGED << ci, findings, events, outcome >>
    /\ UNCHANGED << dvars, cvars >>

\* auth discovery and the optional interactive login end: on to discovery
AuthProceeds ==
    /\ pc = "auth"
    /\ pc' = "discover"
    /\ UNCHANGED << ci, findings, events, outcome >>
    /\ UNCHANGED << dvars, cvars >>

\* the operator asks for the config instructions: process.exit(0)
AuthShowsConfig ==
    /\ pc = "auth"
    /\ isTTY
    /\ pc' = "exited"
    /\ UNCHANGED << ci, findings, events, outcome >>
    /\ UNCHANGED << dvars, cvars >>

(***************************************************************************)
(* Specifications.                                                         *)
(***************************************************************************)
\* no discovery run is in progress
DiscoveryIdle ==
    /\ cacheFile = MissingFile
    /\ site = SiteBare
    /\ flaky = {}
    /\ writable = TRUE
    /\ procs = NoProcesses
    /\ runNo = 0
    /\ dpc = "idle"
    /\ routes = <<>>
    /\ newCacheEntries = <<>>
    /\ pathsToSearch = <<>>
    /\ chunkAt = 0
    /\ inflight = {}
    /\ overtakes = 0
    /\ failedProbes = {}
    /\ probeLog = <<>>
    /\ writes = 0
    /\ cachedAtStart = {}
    /\ returned = <<>>

\* const findings = []: the check loop has not started
LoopEntry ==
    /\ ci = 1
    /\ findings = <<>>
    /\ events = <<>>
    /\ outcome = [i \in checks |-> [kind |-> "none", list |-> <<>>]]

\* the clients as createAxiosInstance returns them
ClientsCreated ==
    /\ rateLimitHits = [inst \in Instances |-> 0]
    /\ pending = [j \in {} |-> <<>>]
    /\ nextId = 0
    /\ pauseLog = [inst \in Instances |-> <<>>]
    /\ prompts = [inst \in Instances |-> 0]
    /\ overlapped = [inst \in Instances |-> FALSE]
    /\ lastPassed = [inst \in Instances |-> FALSE]

\* before createAxiosInstance has been called there is no client
NoClients ==
    /\ rateLimitHits = << >>
    /\ pending = [j \in {} |-> <<>>]
    /\ nextId = 0
    /\ pauseLog = << >>
    /\ prompts = << >>
    /\ overlapped = << >>
    /\ lastPassed = << >>

\* discoverRoutes has returned: const findings = [], the clients and the
\* context are created and the check loop is entered
CreateClients ==
    /\ pc = "discover"
    /\ RunFinished
    /\ pc' = "loop"
    /\ findings' = <<>>
    /\ rateLimitHits' = [inst \in Instances |-> 0]
    /\ pauseLog' = [inst \in Instances |-> <<>>]
    /\ prompts' = [inst \in Instances |-> 0]
    /\ overlapped' = [inst \in Instances |-> FALSE]
    /\ lastPassed' = [inst \in Instances |-> FALSE]
    /\ UNCHANGED << apiSite, apiUrl, autoContinue, isTTY, pending, nextId >>
    /\ UNCHANGED << ci, events, outcome >>
    /\ UNCHANGED dvars

\* the configurations of a scan: <<config.apiUrl set, config.autoContinue,
\* process.stdout.isTTY>>
Configs ==
    { << FALSE, FALSE, TRUE >>, << TRUE, FALSE, TRUE >>,
      << FALSE, TRUE, TRUE >>, << FALSE, FALSE, FALSE >> }

Configured(cfg) ==
    /\ apiSite = ApiResponses
    /\ apiUrl = cfg[1]
    /\ autoContinue = cfg[2]
    /\ isTTY = cfg[3]

DiscoveryInit ==
    /\ DiscoveryScenario
    /\ pc = "discover"
    /\ LoopEntry
    /\ Configured(<< FALSE, FALSE, FALSE >>)
    /\ ClientsCreated

DiscoveryNext ==
    \/ DiscoverCall
    \/ DiscoverCallThrows
    \/ \E k \in 1..WordlistLen : ProbeResponds(k)
    \/ \E k \in 1..WordlistLen : ProbeFails(k)
    \/ NextChunk
    \/ DiscoverReturn

SpecDiscovery == DiscoveryInit /\ [][DiscoveryNext]_vars

\* entries a caller passes to updateCache: for "/admin" two that differ,
\* for "/new" one
NewEntryPool ==
    { [path |-> "/admin", exists |-> FALSE, status |-> 404, lastChecked |-> 1],
      [path |-> "/admin", exists |-> TRUE, status |-> 200, lastChecked |-> 1],
      [path |-> "/new", exists |-> TRUE, status |-> 200, lastChecked |-> 1] }

EntryLists == UNION {[1..n -> NewEntryPool] : n \in 0..MaxEntries}

\* updateCache(baseUrl, newEntries), called while no discovery run is in
\* progress
UpdateCache(baseUrl, newEntries) ==
    /\ dpc = "idle"
    /\ runNo = 0
    /\ writes < MaxUpdates
    /\ ~CacheUpdateThrows
    /\ cacheFile' = saveCache(UpdatedStore(baseUrl, newEntries))
    /\ writes' = IF writable THEN writes + 1 ELSE writes
    /\ UNCHANGED << site, flaky, writable, procs, runNo, dpc, routes, newCacheEntries,
                    pathsToSearch, chunkAt, inflight, overtakes, probeLog, failedProbes,
                    cachedAtStart, returned >>
    /\ UNCHANGED << svars, cvars >>

\* delete cache[hash] on what loadCache returned throws a TypeError:
\* JSON.parse returned null
ClearCacheThrows == cacheFile.kind = "null"

\* the store without the record of a target
WithoutRecord(cache, baseUrl) ==
    [h \in DOMAIN cache \ {hashBaseUrl(baseUrl)} |-> cache[h]]

\* the file after clearCache(baseUrl) returned: saveCache of the loaded
\* value without cache[hash]; a number or an array is written back as it was
ClearedFile(baseUrl) ==
    IF cacheFile.kind \in {"number", "array"} THEN cacheFile
    ELSE saveCache(WithoutRecord(loadCache, baseUrl))

\* clearCache(baseUrl), called while no discovery run is in progress
ClearCache(baseUrl) ==
    /\ dpc = "idle"
    /\ runNo = 0
    /\ ~ClearCacheThrows
    /\ cacheFile' = ClearedFile(baseUrl)
    /\ UNCHANGED << site, flaky, writable, procs, runNo, dpc, routes, newCacheEntries,
                    pathsToSearch, chunkAt, inflight, overtakes, probeLog, failedProbes,
                    writes, cachedAtStart, returned >>
    /\ UNCHANGED << svars, cvars >>

\* clearCache(): if (fs.existsSync(CACHE_FILE)) fs.unlinkSync(CACHE_FILE)
ClearAll ==
    /\ dpc = "idle"
    /\ runNo = 0
    /\ cacheFile' = MissingFile
    /\ UNCHANGED << site, flaky, writable, procs, runNo, dpc, routes, newCacheEntries,
                    pathsToSearch, chunkAt, inflight, overtakes, probeLog, failedProbes,
                    writes, cachedAtStart, returned >>
    /\ UNCHANGED << svars, cvars >>

\* the cache module under direct calls
CacheNext ==
    \/ \E baseUrl \in BaseUrls, newEntries \in EntryLists : UpdateCache(baseUrl, newEntries)
    \/ \E baseUrl \in BaseUrls : ClearCache(baseUrl)
    \/ ClearAll

CacheInit ==
    /\ cacheFile \in {MissingFile, GarbageFile, SeededFile, ArrayFile, NullFile}
    /\ writable \in BOOLEAN
    /\ procs = NoProcesses
    /\ site = SiteBare
    /\ flaky = {}
    /\ runNo = 0
    /\ dpc = "idle"
    /\ routes = <<>>
    /\ newCacheEntries = <<>>
    /\ pathsToSearch = <<>>
    /\ chunkAt = 0
    /\ inflight = {}
    /\ overtakes = 0
    /\ failedProbes = {}
    /\ probeLog = <<>>
    /\ writes = 0
    /\ cachedAtStart = {}
    /\ returned = <<>>
    /\ pc = "discover"
    /\ LoopEntry
    /\ Configured(<< FALSE, FALSE, FALSE >>)
    /\ ClientsCreated

SpecCache == CacheInit /\ [][CacheNext]_vars

\* updateCache in process p: const cache = loadCache()
ProcLoad(p) ==
    /\ procs[p].stage = "idle"
    /\ procs' = [procs EXCEPT ![p] = [stage |-> "loaded", cache |-> loadCache, wrote |-> <<>>]]
    /\ UNCHANGED << cacheFile, site, flaky, writable, runNo, dpc, routes, newCacheEntries,
                    pathsToSearch, chunkAt, inflight, overtakes, probeLog, failedProbes,
                    writes, cachedAtStart, returned >>
    /\ UNCHANGED << svars, cvars >>

\* updateCache in process p, from the merge to saveCache(cache): the file is
\* overwritten with the store this process loaded and merged
ProcSave(p, newEntries) ==
    /\ procs[p].stage = "loaded"
    /\ newEntries # <<>>
    /\ LET merged == MergedInto(procs[p].cache, TargetOf(p), newEntries)
       IN  /\ cacheFile' = saveCache(merged)
           /\ procs' = [procs EXCEPT ![p] =
                  [stage |-> "done", cache |-> procs[p].cache,
                   wrote |-> merged[hashBaseUrl(TargetOf(p))].entries]]
    /\ UNCHANGED << site, flaky, writable, runNo, dpc, routes, newCacheEntries,
                    pathsToSearch, chunkAt, inflight, overtakes, probeLog, failedProbes,
                    writes, cachedAtStart, returned >>
    /\ UNCHANGED << svars, cvars >>

\* two scan processes, each at the updateCache call that ends its discovery
TwoProcessInit ==
    /\ cacheFile \in {MissingFile, SeededFile}
    /\ writable = TRUE
    /\ procs = NoProcesses
    /\ site = SiteBare
    /\ flaky = {}
    /\ runNo = 0
    /\ dpc = "idle"
    /\ routes = <<>>
    /\ newCacheEntries = <<>>
    /\ pathsToSearch = <<>>
    /\ chunkAt = 0
    /\ inflight = {}
    /\ overtakes = 0
    /\ failedProbes = {}
    /\ probeLog = <<>>
    /\ writes = 0
    /\ cachedAtStart = {}
    /\ returned = <<>>
    /\ pc = "discover"
    /\ LoopEntry
    /\ Configured(<< FALSE, FALSE, FALSE >>)
    /\ ClientsCreated

TwoProcessNext ==
    \/ \E p \in Processes : ProcLoad(p)
    \/ \E p \in Processes, newEntries \in EntryLists : ProcSave(p, newEntries)

SpecTwoProcesses == TwoProcessInit /\ [][TwoProcessNext]_vars

\* the check loop of runVibeTest, from its entry to the report
SchedulerInit ==
    /\ DiscoveryIdle
    /\ pc = "loop"
    /\ LoopEntry
    /\ \E cfg \in Configs : Configured(cfg)
    /\ ClientsCreated

SchedulerNext ==
    \/ StartCheck
    \/ \E fs \in FindingLists(ci) : CheckResolves(fs)
    \/ CheckRejects
    \/ Report

SpecScheduler == SchedulerInit /\ [][SchedulerNext]_vars

\* the clients while the run of one check is sending requests through them
ClientInit ==
    /\ DiscoveryIdle
    /\ pc = "running"
    /\ LoopEntry
    /\ \E cfg \in Configs : Configured(cfg)
    /\ ClientsCreated

ClientNext ==
    \/ \E f \in ClientFields, r \in ApiResponses : ResponsePasses(f, r)
    \/ \E f \in ClientFields, r \in ApiResponses : Intercept(f, r)
    \/ \E id \in 1..MaxRateLimited : WakeFirst(id)
    \/ \E id \in 1..MaxRateLimited : WakeSecond(id)
    \/ \E id \in 1..MaxRateLimited : PromptContinue(id)
    \/ \E id \in 1..MaxRateLimited : PromptAbort(id)
    \/ \E id \in 1..MaxRateLimited : Exit(id)

SpecClient == ClientInit /\ [][ClientNext]_vars

\* one interactive client in front of a target that answers every request of
\* the checks with the same response
DetectionInit ==
    /\ DiscoveryIdle
    /\ pc = "running"
    /\ LoopEntry
    /\ apiSite \in {{r} : r \in ApiResponses}
    /\ apiUrl = FALSE
    /\ autoContinue = FALSE
    /\ isTTY = TRUE
    /\ ClientsCreated

SpecDetection == DetectionInit /\ [][ClientNext]_vars

\* the environments of a whole scan: a target whose root answers 200 and may
\* also fail at network level, a target whose root answers 404, and a target
\* whose root answers 200 scanned with a cache file that holds null
RunScenarios ==
    { [file |-> MissingFile, site |-> SiteRich, flaky |-> {"/"}, writable |-> TRUE],
      [file |-> SeededFile, site |-> SiteBare, flaky |-> {}, writable |-> TRUE],
      [file |-> NullFile, site |-> SiteRich, flaky |-> {}, writable |-> TRUE] }

\* runVibeTest(config) is called: an interactive scan of one origin
RunInit ==
    /\ \E sc \in RunScenarios :
          /\ cacheFile = sc.file
          /\ site = sc.site
          /\ flaky = sc.flaky
          /\ writable = sc.writable
          /\ procs = NoProcesses
    /\ runNo = 0
    /\ dpc = "idle"
    /\ routes = <<>>
    /\ newCacheEntries = <<>>
    /\ pathsToSearch = <<>>
    /\ chunkAt = 0
    /\ inflight = {}
    /\ overtakes = 0
    /\ failedProbes = {}
    /\ probeLog = <<>>
    /\ writes = 0
    /\ cachedAtStart = {}
    /\ returned = <<>>
    /\ pc = "connect"
    /\ LoopEntry
    /\ Configured(<< FALSE, FALSE, TRUE >>)
    /\ NoClients

\* the probe whose response is the next to arrive, when the target answers
\* the probes in the order they were issued
OldestProbe(k) == \A j \in inflight : k <= j

\* one scan: discoverRoutes is called once, the target answers the probes in
\* order, and the checks await each request before they send the next one
RunNext ==
    \/ ConnectSucceeds
    \/ ConnectFails
    \/ AuthProceeds
    \/ AuthShowsConfig
    \/ runNo = 0 /\ DiscoverCall
    \/ DiscoverCallThrows
    \/ \E k \in 1..WordlistLen : OldestProbe(k) /\ ProbeResponds(k)
    \/ \E k \in 1..WordlistLen : OldestProbe(k) /\ ProbeFails(k)
    \/ NextChunk
    \/ DiscoverReturn
    \/ CreateClients
    \/ StartCheck
    \/ \E fs \in FindingLists(ci) : CheckResolves(fs)
    \/ CheckRejects
    \/ Report
    \/ \E f \in ClientFields, r \in ApiResponses : ResponsePasses(f, r)
    \/ \E f \in ClientFields, r \in ApiResponses : DOMAIN pending = {} /\ Intercept(f, r)
    \/ \E id \in 1..MaxRateLimited : WakeFirst(id)
    \/ \E id \in 1..MaxRateLimited : WakeSecond(id)
    \/ \E id \in 1..MaxRateLimited : PromptContinue(id)
    \/ \E id \in 1..MaxRateLimited : PromptAbort(id)
    \/ \E id \in 1..MaxRateLimited : Exit(id)

SpecRun == RunInit /\ [][RunNext]_vars

\* a whole scan in which every awaited operation settles: the connectivity
\* request, the auth step, every probe and every check's run; the
\* synchronous steps of runVibeTest and discoverRoutes are always taken
RunFairness ==
    /\ WF_vars(ConnectSucceeds \/ ConnectFails)
    /\ WF_vars(AuthProceeds \/ AuthShowsConfig)
    /\ WF_vars((runNo = 0 /\ DiscoverCall) \/ DiscoverCallThrows)
    /\ WF_vars(\E k \in 1..WordlistLen :
                  OldestProbe(k) /\ (ProbeResponds(k) \/ ProbeFails(k)))
    /\ WF_vars(NextChunk)
    /\ WF_vars(DiscoverReturn)
    /\ WF_vars(CreateClients)
    /\ WF_vars(StartCheck)
    /\ WF_vars((\E fs \in FindingLists(ci) : CheckResolves(fs)) \/ CheckRejects)
    /\ WF_vars(Report)
    /\ WF_vars(\E id \in 1..MaxRateLimited :
                  WakeFirst(id) \/ WakeSecond(id) \/ PromptContinue(id)
                      \/ PromptAbort(id) \/ Exit(id))

SpecRunFair == RunInit /\ [][RunNext]_vars /\ RunFairness

(***************************************************************************)
(* Properties of the Discovery Engine (checked under SpecDiscovery).       *)
(***************************************************************************)
PathsOf(list) == {list[k].path : k \in DOMAIN list}

UniquePaths(list) ==
    \A j, k \in DOMAIN list : list[j].path = list[k].path => j = k

\* C3: in the store of the cache file, the entries list of every target never
\* holds two entries with the same path.
C3_CacheEntriesUnique ==
    \A h \in DOMAIN loadCache : UniquePaths(loadCache[h].entries)

\* C4: no request is issued for a path that has a cache entry for the target,
\* and a run that follows a run whose cache write succeeded (the file holds
\* the store that run wrote) issues no request.
C4_NoProbeOfCachedPath ==
    /\ dpc = "probing" =>
          \A k \in DOMAIN probeLog : probeLog[k] \notin getCachedPaths(Target)
    /\ (runNo >= 2 /\ writable /\ cacheFile.kind = "json") => probeLog = <<>>

C4_Witness ==
    /\ RunFinished
    /\ runNo = 2
    /\ writable
    /\ Range(DISCOVERY_PATHS) \subseteq cachedAtStart
    /\ \E k \in DOMAIN loadCache[hashBaseUrl(Target)].entries :
          ~loadCache[hashBaseUrl(Target)].entries[k].exists

\* C5: the second run, made with the cache the first run wrote, returns the
\* same set of route paths as the first run.
C5_SameRouteSet ==
    (Len(returned) >= 2 /\ writable) => PathsOf(returned[2]) = PathsOf(returned[1])

\* C6: the list a discovery run returns holds at most one entry per path.
C6_ReturnedUnique ==
    \A r \in DOMAIN returned : UniquePaths(returned[r])

C6_Witness ==
    /\ RunFinished
    /\ ~UniquePaths(routes)
    /\ overtakes > 0

\* C7: at most CHUNK_SIZE probes are in flight, and every probe in flight
\* belongs to the current chunk: no probe of the next chunk is issued while a
\* probe of an earlier chunk is pending.
C7_ChunkBarrier ==
    /\ Cardinality(inflight) <= CHUNK_SIZE
    /\ inflight \subseteq ChunkPositions(pathsToSearch, chunkAt)

C7_Witness ==
    /\ chunkAt = CHUNK_SIZE
    /\ inflight # {}
    /\ failedProbes # {}

\* C8 as stated: a failed probe does not stop the run, every path to search is
\* still probed, the failed path gets a cache entry with exists = false, and
\* the failed path is not in the result list.
C8_FailedPathNotReturned ==
    /\ \A k \in failedProbes :
          /\ \E e \in Range(newCacheEntries) :
                e.path = pathsToSearch[k] /\ ~e.exists
          /\ pathsToSearch[k] \notin PathsOf(routes)
    /\ RunFinished =>
          /\ Len(probeLog) = Len(pathsToSearch)
          /\ \A k \in failedProbes :
                pathsToSearch[k] \notin PathsOf(returned[runNo])

\* the steps in which the catch block of a probe ran
ProbeFailed == failedProbes' # failedProbes /\ failedProbes' # {}

\* routes a source other than a probe of p itself contributes for p: the
\* robots declarations (links to wordlist paths are never added)
DeclaredByRobots(p) ==
    /\ "/robots.txt" \in Range(probeLog)
    /\ Route(p) \in Range(RobotsRoutes(site["/robots.txt"].lines))

\* C8 amended: the handler of a failed probe appends one entry with
\* exists = false for its path and adds no route; the run still probes every
\* path to search and returns; the failed path is in the returned list only
\* if another probe of the same path was answered or the robots file declares it.
C8_FailureIsolated ==
    /\ [][ProbeFailed =>
            /\ routes' = routes
            /\ dpc' = dpc
            /\ \E k \in failedProbes' \ failedProbes :
                  newCacheEntries' = Append(newCacheEntries,
                      [path |-> pathsToSearch[k], exists |-> FALSE, lastChecked |-> runNo])]_vars
    /\ [](RunFinished =>
            /\ Len(probeLog) = Len(pathsToSearch)
            /\ Len(newCacheEntries) = Len(pathsToSearch)
            /\ \A k \in failedProbes :
                  pathsToSearch[k] \in PathsOf(returned[runNo]) =>
                      \/ \E j \in DOMAIN pathsToSearch \ failedProbes :
                            pathsToSearch[j] = pathsToSearch[k]
                      \/ DeclaredByRobots(pathsToSearch[k]))

C8_Witness ==
    /\ RunFinished
    /\ failedProbes # {}
    /\ chunkAt = CHUNK_SIZE
    /\ \E k \in failedProbes : k <= CHUNK_SIZE
    /\ returned[runNo] # <<>>

(***************************************************************************)
(* Properties of the check loop (checked under SpecScheduler).             *)
(***************************************************************************)
\* what the run of check i contributed: its list if it resolved, nothing if
\* it rejected
Contribution(i) ==
    IF outcome[i].kind = "resolved" THEN outcome[i].list ELSE <<>>

\* the contributions of the checks 1..n, in list order
Collected(n) == Flatten([i \in 1..n |-> Contribution(i)])

LoopFinished == pc \in {"report", "done"}

\* C1: the aggregate is the concatenation, in list order, of the lists of the
\* checks that resolved; a rejecting check adds and removes nothing, and the
\* loop finishes only after every check of the list has been run.
C1_CheckIsolation ==
    /\ pc \in {"loop", "running", "report", "done"} => findings = Collected(ci - 1)
    /\ LoopFinished =>
          /\ ci = NumChecks + 1
          /\ \A i \in checks : outcome[i].kind # "none"

C1_Witness ==
    /\ LoopFinished
    /\ outcome[1].kind = "resolved" /\ outcome[1].list # <<>>
    /\ \A i \in 2..(NumChecks - 1) : outcome[i].kind = "rejected"
    /\ outcome[NumChecks].kind = "resolved" /\ outcome[NumChecks].list # <<>>
    /\ findings = outcome[1].list \o outcome[NumChecks].list

StartedChecks == SelectSeq(events, LAMBDA e : e.type = "started")

SettledChecks == SelectSeq(events, LAMBDA e : e.type # "started")

\* the checks whose run has been invoked and has not settled
RunningChecks ==
    {i \in checks :
        /\ \E k \in DOMAIN StartedChecks : StartedChecks[k].check = i
        /\ ~\E k \in DOMAIN SettledChecks : SettledChecks[k].check = i}

\* C2: at most one check is running, the k-th invocation is the run of the
\* k-th check of the list, and it happens only after the k-1 checks before it
\* have settled.
C2_OneAtATimeInOrder ==
    /\ Cardinality(RunningChecks) <= 1
    /\ \A k \in DOMAIN StartedChecks : StartedChecks[k].check = k
    /\ \A k \in DOMAIN SettledChecks : SettledChecks[k].check = k
    /\ Len(SettledChecks) <= Len(StartedChecks)
    /\ Len(StartedChecks) <= Len(SettledChecks) + 1

C2_Witness ==
    /\ pc = "running"
    /\ ci = NumChecks
    /\ Len(StartedChecks) = NumChecks
    /\ Len(SettledChecks) = NumChecks - 1
    /\ RunningChecks = {NumChecks}

(***************************************************************************)
(* Properties of the rate-limit-aware clients (checked under SpecClient).  *)
(***************************************************************************)
\* C9: when the rate-limited responses of a client are intercepted one after
\* the other, the k-th of them is hit k and is paused min(k, 3) base units in
\* total: 3 s, 6 s, 9 s, and 9 s for every later hit, at and beyond the
\* threshold.
C9_BackoffCapped ==
    \A inst \in Instances :
        ~overlapped[inst] =>
            /\ \A k \in DOMAIN pauseLog[inst] :
                  /\ pauseLog[inst][k].hit = k
                  /\ pauseLog[inst][k].paused = BASE_WAIT_TIME * Min(k, 3)
            /\ \A id \in Handled(inst) :
                  pending[id].paused = BASE_WAIT_TIME * Min(pending[id].hit, 3)

C9_Witness ==
    \E inst \in Instances :
        /\ ~overlapped[inst]
        /\ Len(pauseLog[inst]) > MAX_RATE_LIMIT_BEFORE_PROMPT
        /\ prompts[inst] = 1

\* C10: the operator is prompted at most once per client instance.
C10_PromptAtMostOnce ==
    \A inst \in Instances : prompts[inst] <= 1

\* the responses of a client that were its hit number n and have left the
\* first pause: those returned and those still inside the interceptor
PastFirstPause(inst, n) ==
    {rec \in Range(pauseLog[inst]) : rec.hit = n}
        \cup {[hit |-> pending[id].hit, paused |-> pending[id].paused,
               pauses |-> pending[id].pauses] :
                 id \in {j \in Handled(inst) :
                            pending[j].hit = n /\ pending[j].stage # "pause1"}}

\* C11: on the hit that brings a client's counter to the threshold: with
\* auto-continue no prompt is shown and the process goes on; without it and
\* with an interactive stdout the operator is prompted for that hit (the hit
\* gets no further pause instead) and only declining exits the process;
\* without it and non-interactive no prompt is shown and the process never exits.
C11_EscalationPolicy ==
    /\ (autoContinue \/ ~isTTY) =>
          /\ \A inst \in Instances : prompts[inst] = 0
          /\ pc # "exited"
    /\ (~autoContinue /\ isTTY) =>
          \A inst \in Instances :
              /\ \A rec \in PastFirstPause(inst, MAX_RATE_LIMIT_BEFORE_PROMPT) :
                    /\ prompts[inst] >= 1
                    /\ rec.pauses = 1
              /\ prompts[inst] >= 1 => rateLimitHits[inst] >= MAX_RATE_LIMIT_BEFORE_PROMPT
    /\ pc = "exited" => \E id \in DOMAIN pending : pending[id].stage = "exit"

(***************************************************************************)
(* Properties of the rate-limit detection (checked under SpecDetection).   *)
(***************************************************************************)
\* the responses of the model that are throttling signals: status 429, an
\* indicator in the request path, or an indicator in the lowercased body
ExpectedRateLimited == { Status429, TooManyBody200, BlockedPath200 }

\* C12: a response is handled as rate limited exactly when its status is 429
\* or its request path or its lowercased body holds an indicator: such a
\* response never passes, is intercepted and adds one to the hit counter
\* (also with status 200 and "Too Many Requests" in the body); every other
\* response passes, is never intercepted, never counted and never paused.
C12_Detection ==
    \A r \in apiSite :
        /\ r \in ExpectedRateLimited =>
              /\ ~lastPassed["frontend"]
              /\ rateLimitHits["frontend"] = nextId
              /\ nextId = Len(pauseLog["frontend"]) + Cardinality(DOMAIN pending)
              /\ nextId = 0 => ENABLED Intercept("axios", r)
              /\ ~ENABLED ResponsePasses("axios", r)
        /\ r \notin ExpectedRateLimited =>
              /\ rateLimitHits["frontend"] = 0
              /\ nextId = 0
              /\ pauseLog["frontend"] = <<>>
              /\ DOMAIN pending = {}
              /\ ENABLED ResponsePasses("axios", r)
              /\ ~ENABLED Intercept("axios", r)

C12_Witness ==
    /\ apiSite = { TooManyBody200 }
    /\ TooManyBody200.status = 200
    /\ rateLimitHits["frontend"] = 1
    /\ \E id \in DOMAIN pending : pending[id].hit = 1 /\ pending[id].paused = BASE_WAIT_TIME

\* C13: the counter of a client counts consecutive throttling signals: when
\* the latest response of a client was not rate limited (and none of its
\* responses is being paused) the client is in state Normal, hit count 0, so
\* that the next rate-limited response is hit number 1.
C13_ConsecutiveCounter ==
    \A inst \in Instances :
        (lastPassed[inst] /\ Handled(inst) = {}) => rateLimitHits[inst] = 0

\* the hit numbers of the rate-limited responses of a client, returned or not
HitsOf(inst) ==
    {pauseLog[inst][k].hit : k \in DOMAIN pauseLog[inst]}
        \cup {pending[id].hit : id \in Handled(inst)}

\* C14: with a separate API origin each client counts its own rate-limited
\* responses only: its counter is the number of responses its own interceptor
\* found rate limited, these responses are its hits 1, 2, ... without a gap,
\* and it prompts only when its own counter has reached the threshold.
C14_IndependentCounters ==
    apiUrl =>
        \A inst \in Instances :
            /\ rateLimitHits[inst] = Len(pauseLog[inst]) + Cardinality(Handled(inst))
            /\ HitsOf(inst) = 1..rateLimitHits[inst]
            /\ prompts[inst] >= 1 => rateLimitHits[inst] >= MAX_RATE_LIMIT_BEFORE_PROMPT

C14_Witness ==
    /\ apiUrl
    /\ rateLimitHits["frontend"] = MAX_RATE_LIMIT_BEFORE_PROMPT
    /\ rateLimitHits["api"] = 1
    /\ prompts["frontend"] = 1
    /\ prompts["api"] = 0
    /\ Len(pauseLog["api"]) = 1
    /\ pauseLog["api"][1].paused = BASE_WAIT_TIME
    /\ Len(pauseLog["frontend"]) = MAX_RATE_LIMIT_BEFORE_PROMPT
    /\ pauseLog["frontend"][1].paused = BASE_WAIT_TIME

(***************************************************************************)
(* Properties of a whole scan (checked under SpecRun).                     *)
(***************************************************************************)
\* the interceptor has called process.exit(0) for a declined prompt
ExitCalled == \E id \in DOMAIN pending : pending[id].stage = "exit"

C19_FatalStartup ==
    /\ [](pc = "returned" =>
            /\ runNo = 0
            /\ dpc = "idle"
            /\ probeLog = <<>>
            /\ writes = 0
            /\ cacheFile \in {sc.file : sc \in {x \in RunScenarios : x.site = site}}
            /\ NoClients
            /\ events = <<>>
            /\ findings = <<>>
            /\ \A i \in checks : outcome[i].kind = "none")
    /\ [][pc # "returned"]_vars
    /\ [][(pc = "connect" /\ pc' # pc /\ ConnectivityFails(site["/"])) =>
            pc' = "returned"]_vars

C19_Witness ==
    /\ pc = "returned"
    /\ ConnectivityFails(site["/"])
    /\ cacheFile = SeededFile
    /\ NoClients

(***************************************************************************)
(* Properties of the cache operations (checked under SpecDiscovery).       *)
(***************************************************************************)
\* the cache file does not hold a store object
NotAStore == cacheFile.kind # "json"

\* C16: whatever the cache file holds, the cache operations never throw (no
\* call of discoverRoutes is rejected), a file that is not a store reads as
\* an empty cache (nothing cached, nothing seeded, every wordlist path is
\* searched), and the write at the end of such a run leaves a store with the
\* entries of the run.
C16_CacheLoadNeverFails ==
    /\ dpc # "rejected"
    /\ NotAStore =>
          /\ getCachedPaths(Target) = {}
          /\ getCachedExistingPaths(Target) = <<>>
          /\ getCacheStats(Target).totalCached = 0
          /\ dpc = "probing" => cachedAtStart = {} /\ pathsToSearch = DISCOVERY_PATHS
    /\ (RunFinished /\ writable /\ newCacheEntries # <<>>) =>
          /\ ~NotAStore
          /\ getCacheStats(Target).totalCached >= Len(newCacheEntries)

\* C17: when discoverRoutes is called the result list starts with one GET
\* route for each cache entry of the target with exists = true, and with
\* nothing else (an entry with exists = false gives no route); no request is
\* issued for the path of such an entry, in or out of the wordlist, and the
\* route is in the list the run returns.
C17_SeededFromCache ==
    /\ [][(runNo' # runNo /\ dpc' # "rejected") =>
            LET entries == CachedEntries(Target)
                existing == {k \in DOMAIN entries : entries[k].exists}
            IN  /\ Len(routes') = Cardinality(existing)
                /\ Range(routes') = {Route(entries[k].path) : k \in existing}]_vars
    /\ [][Len(returned') > Len(returned) =>
            \A e \in Range(CachedEntries(Target)) :
                e.exists =>
                    /\ Route(e.path) \in Range(returned'[Len(returned')])
                    /\ e.path \notin Range(probeLog')]_vars

C17_Witness ==
    /\ RunFinished
    /\ runNo = 1
    /\ probeLog # <<>>
    /\ "/old" \notin Range(DISCOVERY_PATHS)
    /\ Route("/old") \in Range(returned[1])
    /\ "/health" \in cachedAtStart
    /\ "/health" \notin PathsOf(returned[1])

\* the probe of /robots.txt of this run was answered
RobotsAnswered ==
    /\ dpc \in {"probing", "idle"}
    /\ \E k \in 1..Len(probeLog) :
          /\ pathsToSearch[k] = "/robots.txt"
          /\ k \notin inflight
          /\ k \notin failedProbes

\* the paths the Allow: and Disallow: lines of a body reference, the
\* directive in any letter case
DeclaredPaths(lines) ==
    {lines[k].arg : k \in {j \in DOMAIN lines :
        /\ lines[j].directive \in {"Allow", "allow", "ALLOW",
                                   "Disallow", "disallow", "DISALLOW"}
        /\ StartsWithSlash(lines[j].arg)}}

Occurrences(seq, x) == Cardinality({k \in DOMAIN seq : seq[k] = x})

\* C18: once the probe of /robots.txt was answered with a status other than
\* 404 and a text body, every path starting with '/' of an Allow: or
\* Disallow: line (in any letter case) is a GET route of the result list and
\* of the list the run returns, whether its own probe was answered, answered
\* 404, failed or never made; requests are issued for wordlist paths only,
\* once per wordlist occurrence, so none is issued because of a declaration.
C18_RobotsTrusted ==
    /\ (RobotsAnswered /\ site["/robots.txt"].status # 404 /\ site["/robots.txt"].text) =>
          \A p \in DeclaredPaths(site["/robots.txt"].lines) :
             /\ Route(p) \in Range(routes)
             /\ RunFinished => Route(p) \in Range(returned[runNo])
    /\ dpc \in {"probing", "idle"} =>
          \A p \in SlashPaths :
             Occurrences(probeLog, p) <= Occurrences(DISCOVERY_PATHS, p)

C18_Witness ==
    /\ RunFinished
    /\ RobotsAnswered
    /\ DeclaredPaths(site["/robots.txt"].lines) = {"/secret", "/admin", "/home"}
    /\ "/secret" \notin Range(probeLog)
    /\ Route("/secret") \in Range(returned[runNo])
    /\ \E k \in DOMAIN pathsToSearch :
          /\ pathsToSearch[k] = "/home"
          /\ k \notin failedProbes
          /\ site["/home"].status = 404
    /\ Route("/home") \in Range(returned[runNo])

\* the entries list a target has after updateCache(baseUrl, E): each old
\* entry that is the first of its path, when E has entries of that path, is
\* replaced in place by the last of them; the entries of E whose path no old
\* entry has follow, in E's order
ExpectedEntries(old, E) ==
    LET oldPaths == {old[k].path : k \in DOMAIN old}
        LastOf(p) == E[CHOOSE j \in DOMAIN E :
                          /\ E[j].path = p
                          /\ \A i \in DOMAIN E : E[i].path = p => i <= j]
        IsFirst(k) == \A j \in 1..(k - 1) : old[j].path # old[k].path
    IN  [k \in DOMAIN old |->
            IF IsFirst(k) /\ \E j \in DOMAIN E : E[j].path = old[k].path
            THEN LastOf(old[k].path)
            ELSE old[k]]
        \o SelectSeq(E, LAMBDA e : e.path \notin oldPaths)

\* the file holds a store object, or none can be read from it
HoldsStore == cacheFile.kind \in {"missing", "unreadable", "garbage", "json"}

\* C20: wherever updateCache(baseUrl, E) is called on a file that holds a
\* store (or none that can be read) and the write succeeds, the file then
\* holds the store before the call with, for the record of baseUrl, each
\* entry of E put in the place of the existing entry of the same path or
\* appended in E's order; the other entries of that record and the records
\* under every other hash are unchanged.
C20_UpsertResult ==
    (dpc = "idle" /\ writable /\ HoldsStore) =>
        \A baseUrl \in BaseUrls, E \in EntryLists :
            LET before == loadCache
                hash == hashBaseUrl(baseUrl)
                after == saveCache(UpdatedStore(baseUrl, E))
            IN  /\ after.kind = "json"
                /\ DOMAIN after.data = DOMAIN before \cup {hash}
                /\ \A h \in DOMAIN before \ {hash} : after.data[h] = before[h]
                /\ after.data[hash].entries = ExpectedEntries(CachedEntries(baseUrl), E)
                /\ after.data[hash].baseUrl = baseUrl

C20_Witness ==
    /\ writes = 1
    /\ runNo = 0
    /\ cacheFile.kind = "json"
    /\ hashBaseUrl("http://localhost:8080") \in DOMAIN cacheFile.data
    /\ cacheFile.data[hashBaseUrl("http://localhost:8080")] = OtherRecord
    /\ LET entries == cacheFile.data[hashBaseUrl(Target)].entries
       IN  /\ Len(entries) = 5
           /\ entries[1] = [path |-> "/admin", exists |-> FALSE, status |-> 404, lastChecked |-> 1]
           /\ entries[2].path = "/health"
           /\ entries[5].path = "/new"

\* the store a file holds, as loadCache reads it
StoreOf(file) == IF file.kind = "json" THEN file.data ELSE EmptyStore

\* C21: wherever clearCache is called, with a target it does not throw and
\* leaves the store without the record of that target and with the record of
\* every other target as it was; without a target it leaves no store, so no
\* target has a cached path.
C21_ClearCache ==
    /\ [](dpc = "idle" =>
            /\ ~ClearCacheThrows
            /\ \A baseUrl \in BaseUrls :
                  LET before == loadCache
                      after == StoreOf(ClearedFile(baseUrl))
                      hash == hashBaseUrl(baseUrl)
                  IN  /\ hash \notin DOMAIN after
                      /\ DOMAIN after = DOMAIN before \ {hash}
                      /\ \A h \in DOMAIN after : after[h] = before[h])
    /\ [][ClearAll => \A baseUrl \in BaseUrls : getCachedPaths(baseUrl)' = {}]_vars

\* the number of events when the loop is at check i: two for each check
\* before it, and the started event of check i while its run has not settled
\* (a process that exited may have exited from inside the run)
EventCounts(i) ==
    CASE pc = "running" -> {2 * (i - 1) + 1}
      [] pc = "exited" -> {2 * (i - 1), 2 * (i - 1) + 1}
      [] OTHER -> {2 * (i - 1)}

\* C22: the events are, check by check in list order, one started event
\* emitted when run is invoked followed by one terminal event emitted when run
\* settled: succeeded, with the number of findings, when run resolved (shown
\* as "found issues" when there are findings), failed when run rejected; the
\* terminal event of a check precedes the started event of the next, and when
\* the loop has finished every check has both.
C22_StatusEvents ==
    /\ Len(events) \in EventCounts(ci)
    /\ \A k \in DOMAIN events :
          IF k % 2 = 1
          THEN events[k] = [type |-> "started", check |-> (k + 1) \div 2, spinner |-> "start"]
          ELSE LET i == k \div 2
               IN  /\ events[k].check = i
                   /\ outcome[i].kind \in {"resolved", "rejected"}
                   /\ outcome[i].kind = "resolved" =>
                         /\ events[k].type = "succeeded"
                         /\ events[k].count = Len(outcome[i].list)
                         /\ events[k].spinner = "fail" <=> outcome[i].list # <<>>
                         /\ events[k].spinner = "succeed" <=> outcome[i].list = <<>>
                   /\ outcome[i].kind = "rejected" =>
                         /\ events[k].type = "failed"
                         /\ events[k].spinner = "warn"
    /\ LoopFinished => Len(events) = 2 * NumChecks

C22_Witness ==
    /\ pc = "done"
    /\ outcome[1].kind = "resolved" /\ outcome[1].list # <<>>
    /\ outcome[2].kind = "rejected"
    /\ outcome[NumChecks].kind = "resolved" /\ outcome[NumChecks].list = <<>>
    /\ Len(events) = 2 * NumChecks

\* no response of a client is in its first pause
NoneInFirstPause(inst) == \A id \in Handled(inst) : pending[id].stage # "pause1"

\* C23: once the counter of a client has reached the threshold and the
\* responses that were pausing have gone on, the escalation step has been
\* executed: in interactive mode without auto-continue the operator has been
\* prompted, and in every mode the response that was the threshold hit was
\* not given the pause of the hits beyond the threshold instead.
C23_EscalationNeverSkipped ==
    \A inst \in Instances :
        (rateLimitHits[inst] >= MAX_RATE_LIMIT_BEFORE_PROMPT /\ NoneInFirstPause(inst)) =>
            /\ (~autoContinue /\ isTTY) => prompts[inst] >= 1
            /\ \A id \in Handled(inst) :
                  pending[id].hit = MAX_RATE_LIMIT_BEFORE_PROMPT => pending[id].stage # "pause2"

\* the capped maximum of one pause: 3 times the base unit
MaxPause == BASE_WAIT_TIME * 3

\* C24: every rate-limited response, returned or still inside the
\* interceptor, has been paused once and for at most the capped maximum in
\* total, however the responses of a client interleave.
C24_DelayCap ==
    \A inst \in Instances :
        /\ \A k \in DOMAIN pauseLog[inst] :
              /\ pauseLog[inst][k].pauses = 1
              /\ pauseLog[inst][k].paused <= MaxPause
        /\ \A id \in Handled(inst) :
              /\ pending[id].pauses = 1
              /\ pending[id].paused <= MaxPause

\* the paths the responses of this run have added to the result: the routes
\* that are neither seeded from the cache nor the path of an answered probe
LearnedPaths ==
    PathsOf(routes) \ (cachedAtStart \cup Range(DISCOVERY_PATHS))

\* C25: in a run, requests are issued only for the wordlist entries whose path
\* has no cache entry, one request per entry; a path that a robots file or an
\* anchor added to the result is not among them unless the wordlist holds it,
\* and when the run returns the number of requests is the number of those
\* wordlist entries, whatever the responses were.
C25_OneHopOnly ==
    dpc \in {"probing", "idle"} =>
        /\ \A k \in DOMAIN probeLog :
              /\ probeLog[k] \in Range(DISCOVERY_PATHS)
              /\ probeLog[k] \notin cachedAtStart
        /\ \A p \in LearnedPaths : p \notin Range(probeLog)
        /\ Len(probeLog) <= Len(SelectSeq(DISCOVERY_PATHS, LAMBDA p : p \notin cachedAtStart))
        /\ (RunFinished /\ runNo > 0) =>
              Len(probeLog) = Len(SelectSeq(DISCOVERY_PATHS, LAMBDA p : p \notin cachedAtStart))

C25_Witness ==
    /\ RunFinished
    /\ {"/secret", "/hidden"} \subseteq LearnedPaths
    /\ {"/secret", "/hidden"} \subseteq PathsOf(returned[runNo])
    /\ Len(probeLog) = WordlistLen

\* the paths of a list of cache entries, in list order
EntryPaths(entries) == [k \in DOMAIN entries |-> entries[k].path]

\* two lists hold the same elements the same number of times
SameBag(s, t) ==
    /\ Len(s) = Len(t)
    /\ \A x \in Range(s) \cup Range(t) : Occurrences(s, x) = Occurrences(t, x)

\* C26: in one run the cache file is written at most once; it changes only in
\* the step that follows the barrier of the last chunk, when a request has
\* been issued for every path to search and every request has settled, and
\* the list that is written has one entry for each request (on a file that
\* holds a store it is added to the entries of the target); a run that finds
\* every wordlist path cached issues no request and writes nothing.
C26_SingleCacheWrite ==
    /\ [](writes <= 1)
    /\ [][(cacheFile' # cacheFile \/ writes' > writes) =>
            /\ dpc = "probing" /\ dpc' = "idle"
            /\ inflight = {}
            /\ Len(probeLog) = Len(pathsToSearch)
            /\ SameBag(EntryPaths(newCacheEntries), probeLog)
            /\ HoldsStore =>
                  CachedEntries(Target)' = CachedEntries(Target) \o newCacheEntries]_vars
    /\ []((RunFinished /\ Range(DISCOVERY_PATHS) \subseteq cachedAtStart) =>
            /\ probeLog = <<>>
            /\ writes = 0)

C26_Witness ==
    /\ RunFinished
    /\ writes = 1
    /\ chunkAt = CHUNK_SIZE
    /\ failedProbes # {}
    /\ Len(CachedEntries(Target)) = Len(probeLog)

\* C27: when two processes that scan different targets have both finished
\* their cache update, the file holds for each target the entries its process
\* wrote.
C27_NoLostUpdate ==
    (\A p \in Processes : procs[p].stage = "done") =>
        \A p \in Processes : CachedEntries(TargetOf(p)) = procs[p].wrote

\* C28: the sequence of paths for which a run has issued a request holds no
\* path twice.
C28_NoPathProbedTwice ==
    \A j, k \in DOMAIN probeLog : probeLog[j] = probeLog[k] => j = k

\* C29: after a run whose cache write succeeded, a wordlist path is in the
\* returned list exactly when the cache of the target holds an entry for it
\* with exists = true, and no returned wordlist path has an entry with
\* exists = false.
C29_ResultAndCacheAgree ==
    (RunFinished /\ writes = 1 /\ cacheFile.kind = "json") =>
        \A p \in Range(DISCOVERY_PATHS) :
            LET cached == {e \in Range(CachedEntries(Target)) : e.path = p}
            IN  /\ p \in PathsOf(returned[runNo]) <=> \E e \in cached : e.exists
                /\ p \in PathsOf(returned[runNo]) => \A e \in cached : e.exists

(***************************************************************************)
(* Termination of a whole scan (checked under SpecRunFair).                *)
(***************************************************************************)
\* every check of the list has been invoked exactly once
EveryCheckInvokedOnce ==
    \A i \in checks :
        Cardinality({k \in DOMAIN events :
                        events[k].type = "started" /\ events[k].check = i}) = 1

\* printReport is reached after every check has been invoked once
ReportReached == pc \in {"report", "done"} /\ EveryCheckInvokedOnce

\* the process has exited through a declined prompt
OperatorAborted == pc = "exited" /\ ExitCalled

\* the number of chunks the run has issued
ChunksIssued == IF probeLog = <<>> THEN 0 ELSE chunkAt \div CHUNK_SIZE + 1

\* ceil(n / CHUNK_SIZE)
ChunksNeeded(n) == (n + CHUNK_SIZE - 1) \div CHUNK_SIZE

EndedAtStartup ==
    \/ pc = "returned"
    \/ pc = "exited" /\ ~ExitCalled
    \/ dpc = "rejected"

====
